---- MODULE Spec2Model ----
(***************************************************************************)
(* A model of the port scanner in src/NmapScript_copy.py.                  *)
(*                                                                         *)
(*   SpecGrab  the banner grabber: banner_grabbing submits one            *)
(*             threaded_banner_grab probe per port to a pool of            *)
(*             max_workers threads and consumes the completions.           *)
(*   SpecLoad  the banner grabber given more ports than the pool has       *)
(*             threads.                                                    *)
(*   Spec      the run of __main__: scan_ports (Stage 1, Stage 2), then    *)
(*             print_summary and nmap_logger.                              *)
(***************************************************************************)
EXTENDS Integers, Sequences, FiniteSets, TLC

VARIABLES
    \* ---- banner_grabbing -------------------------------------------------
    ports,          \* the list of ports handed to banner_grabbing
    net,            \* what the network does on each port (the environment)
    grabPc,         \* "idle" | "running" | "returned"
    submitted,      \* how many ports executor.submit has been called for
    started,        \* how many work items the pool's threads have dequeued
    running,        \* indices of the probes started and not yet returned
    futures,        \* index -> what the finished probe returned
    consumed,       \* indices the as_completed loop has gone through
    banners,        \* banner_grabbing's result mapping, port -> banner
    error_count,    \* banner_grabbing's error counter
    error_types,    \* banner_grabbing's tally, error type -> count
    \* ---- __main__ / scan_ports ------------------------------------------
    pc,             \* where the run of __main__ is
    nmap_importable,\* whether "import nmap" succeeds in this process
    port_range,     \* <<start_port, end_port>> chosen at the prompt
    engine_calls,   \* the engine invocations made so far, in order
    engine_busy,    \* TRUE while an nm.scan call has not returned
    stage_log,      \* what each stage returned, in order
    open_ports,     \* the list scan_ports works with / returns
    scan_detailed_results,  \* the process-wide results store
    summary,        \* the port lists print_summary was called with, in order
    report,         \* the scan_data documents nmap_logger built, in order
    report_saved,   \* the report file: "no" | "partial" | "written"
    messages,       \* what the operator was told (log lines of interest)
    \* ---- a function of the module called on its own ----------------------
    args,           \* the arguments of the calls
    returns         \* what each call returned, in order

grabVars == <<ports, net, grabPc, submitted, started, running, futures,
              consumed, banners, error_count, error_types>>
mainVars == <<pc, nmap_importable, port_range, engine_calls, engine_busy,
              stage_log, open_ports, scan_detailed_results, summary, report,
              report_saved, messages>>
callVars == <<args, returns>>
vars == <<grabVars, mainVars, callVars>>

-----------------------------------------------------------------------------
(* Bounds of the model.                                                    *)

\* the largest port list of the detailed banner-grabbing scenarios
MaxGrabPorts == 2
\* the length of the port list of the load scenario (more than max_workers)
NumLoadPorts == 11

-----------------------------------------------------------------------------
(* Strings, as Python treats them.                                         *)

\* str.startswith
StartsWith(s, prefix) ==
    /\ Len(s) >= Len(prefix)
    /\ SubSeq(s, 1, Len(prefix)) = prefix

Whitespace == {" ", "\t", "\n", "\r", "\f"}

\* the first index >= i of s that holds no whitespace, Len(s)+1 if none
RECURSIVE SkipLeft(_, _)
SkipLeft(s, i) ==
    IF i > Len(s) THEN i
    ELSE IF SubSeq(s, i, i) \in Whitespace THEN SkipLeft(s, i + 1) ELSE i

\* the last index <= i of s that holds no whitespace, 0 if none
RECURSIVE SkipRight(_, _)
SkipRight(s, i) ==
    IF i < 1 THEN 0
    ELSE IF SubSeq(s, i, i) \in Whitespace THEN SkipRight(s, i - 1) ELSE i

\* str.strip
Strip(s) ==
    LET a == SkipLeft(s, 1)
        b == SkipRight(s, Len(s))
    IN  IF a > b THEN "" ELSE SubSeq(s, a, b)

\* the index of the first occurrence of the one-character string c in s
\* at or after i, 0 if there is none
RECURSIVE IndexOf(_, _, _)
IndexOf(s, c, i) ==
    IF i > Len(s) THEN 0
    ELSE IF SubSeq(s, i, i) = c THEN i ELSE IndexOf(s, c, i + 1)

\* s.split(":", 1)[1]: what follows the first colon of s
\* (Python raises IndexError when s holds no colon; callers test first)
AfterFirstColon(s) ==
    LET k == IndexOf(s, ":", 1)
    IN  SubSeq(s, k + 1, Len(s))

-----------------------------------------------------------------------------
(* The banner grabber: threaded_banner_grab.                               *)

\* the address the probes go to (an IPv4 literal, as get_target_ip returns)
Target == "10.0.0.5"

\* Python's None, among strings
None == "<None>"

\* truth value of a payload: None and b"" are false
Truthy(x) == x # None /\ x # ""

HttpProbe(target) == "GET / HTTP/1.1\r\nHost: " \o target \o "\r\n\r\n"

\* port_probes: port -> payload
port_probes(target) ==
    [p \in {21, 22, 25, 80, 110, 143, 443, 3306, 5432, 8080, 8443} |->
        CASE p = 21   -> "USER anonymous\r\n"
          [] p = 22   -> "SSH-2.0-OpenSSH_8.2p1\r\n"
          [] p = 25   -> "EHLO scan.local\r\n"
          [] p = 80   -> HttpProbe(target)
          [] p = 110  -> "USER test\r\n"
          [] p = 143  -> "A1 CAPABILITY\r\n"
          [] p = 443  -> None
          [] p = 3306 -> "\\x00\\x00\\x00\\x00\\x00"
          [] p = 5432 -> "\\x00\\x00\\x00\\x08\\x04\\xd2\\x16\\x2f"
          [] p = 8080 -> HttpProbe(target)
          [] p = 8443 -> None]

\* ProbeFor with a line break as the default payload:
\* port_probes.get(port, b"\r\n")
ProbeForDefaultCRLF(target, port) ==
    IF port \in DOMAIN port_probes(target) THEN port_probes(target)[port] ELSE "\r\n"

\* port_probes.get(port, b"")
ProbeFor(target, port) ==
    IF port \in DOMAIN port_probes(target) THEN port_probes(target)[port] ELSE ""

\* ssl_ports holding only the ports port_probes marks with None
ssl_ports_of_catalog == {443, 8443}

ssl_ports == {443, 465, 636, 993, 995, 8443}

\* What the network does to one probe:
\*   refused          connect raises ConnectionRefusedError
\*   connect_timeout  connect raises socket.timeout
\*   unreachable      connect raises another OSError
\*   peer_closed      connect succeeds, the peer has closed: send raises
\*                    BrokenPipeError, a recv without send reads nothing
\*   banner           connect succeeds, recv returns the service's bytes
\*   silent           connect succeeds, recv raises socket.timeout
\*   reset            connect succeeds, recv raises ConnectionResetError
\*   recv_error       connect succeeds, recv raises another OSError
Behaviours == {"refused", "connect_timeout", "unreachable", "peer_closed",
               "banner", "silent", "reset", "recv_error"}

ConnectFails(b) == b \in {"refused", "connect_timeout", "unreachable"}
RecvFails(b) == b \in {"silent", "reset", "recv_error"}

\* str(e) of the OSError the network raises
OSErrorText(b) ==
    CASE b = "unreachable" -> "[Errno 113] No route to host"
      [] b = "peer_closed" -> "[Errno 32] Broken pipe"
      [] OTHER             -> "[Errno 5] Input/output error"

\* the bytes a service sends on a port, as decoded text
WireBanner(port) ==
    CASE port = 21   -> "220 ProFTPD 1.3.5 Server ready\r\n"
      [] port = 22   -> "SSH-2.0-OpenSSH_8.2p1\r\n"
      [] port = 3306 -> "5.5.5-10.4.13-MariaDB\n"
      [] OTHER       -> "login: "

\* The result of one probe and what it did with its socket:
\*   port, banner  the returned pair
\*   connected     s.connect returned
\*   ops           the socket calls made, in order, a call that raised
\*                 included: "connect", "send", "recv", "close"
\*   sent          the payload handed to s.send ("" when send was not called)
ProbeResult(port, banner, connected, ops, sent) ==
    [port |-> port, banner |-> banner, connected |-> connected, ops |-> ops,
     sent |-> sent]

\* the inner try around s.recv
ReceiveBanner(port, b) ==
    CASE b = "silent"      -> "Connection timed out while receiving data"
      [] b = "reset"       -> "Connection reset by peer"
      [] b = "recv_error"  -> "Error receiving banner: " \o OSErrorText(b)
      [] b = "peer_closed" -> Strip("")
      [] OTHER             -> Strip(WireBanner(port))

threaded_banner_grab(target, port, b) ==
    LET probe == ProbeFor(target, port) IN
    CASE b = "refused" ->
            ProbeResult(port, "Error: Connection refused", FALSE, <<"connect">>, "")
      [] b = "connect_timeout" ->
            ProbeResult(port, "Error: Connection timeout", FALSE, <<"connect">>, "")
      [] b = "unreachable" ->
            ProbeResult(port, "Error: Network error - " \o OSErrorText(b),
                        FALSE, <<"connect">>, "")
      [] OTHER ->
            IF port \in ssl_ports
            THEN ProbeResult(port, "SSL/TLS Service (port " \o ToString(port) \o ")",
                             TRUE, <<"connect">>, "")
            ELSE IF Truthy(probe) /\ b = "peer_closed"
            THEN ProbeResult(port, "Error: Network error - " \o OSErrorText(b),
                             TRUE, <<"connect", "send">>, probe)
            ELSE IF Truthy(probe)
            THEN ProbeResult(port, ReceiveBanner(port, b), TRUE,
                             <<"connect", "send", "recv", "close">>, probe)
            ELSE ProbeResult(port, ReceiveBanner(port, b), TRUE,
                             <<"connect", "recv", "close">>, "")

-----------------------------------------------------------------------------
(* The banner grabber: banner_grabbing and its thread pool.                *)

\* ThreadPoolExecutor(max_workers=10)
max_workers == 10

\* the range of a sequence
Range(seq) == {seq[i] : i \in DOMAIN seq}

\* dict.get(key, default)
Get(d, key, default) == IF key \in DOMAIN d THEN d[key] ELSE default

\* d[key] = value
Put(d, key, value) == (key :> value) @@ d

\* the empty dict
EmptyDict == <<>>

\* banner.startswith("Error:")
IsErrorBanner(banner) == StartsWith(banner, "Error:")

\* banner.split(":", 1)[1].strip()
ErrorType(banner) == Strip(AfterFirstColon(banner))

\* executor.submit(threaded_banner_grab, target, port) for the next port of
\* the list: the work item is queued; nothing is collected before the last
\* submit
Submit ==
    /\ grabPc = "running"
    /\ submitted < Len(ports)
    /\ submitted' = submitted + 1
    /\ UNCHANGED <<ports, net, grabPc, started, running, futures, consumed,
                   banners, error_count, error_types, mainVars, callVars>>

\* a pool that starts a thread for every work item
PoolUnbounded == TRUE

\* the pool has a thread free to take a work item: it never runs more than
\* max_workers threads
PoolHasFreeThread == Cardinality(running) < max_workers

\* a pool thread takes the oldest queued work item and calls
\* threaded_banner_grab
StartProbe ==
    /\ grabPc = "running"
    /\ started < submitted
    /\ PoolHasFreeThread
    /\ started' = started + 1
    /\ running' = running \cup {started + 1}
    /\ UNCHANGED <<ports, net, grabPc, submitted, futures, consumed, banners,
                   error_count, error_types, mainVars, callVars>>

\* FinishProbe with the pool thread storing its banner in the shared
\* mapping itself
FinishProbeWritesShared(i) ==
    /\ grabPc = "running"
    /\ i \in running
    /\ running' = running \ {i}
    /\ LET r == threaded_banner_grab(Target, ports[i], net[ports[i]])
       IN  /\ futures' = Put(futures, i, r)
           /\ banners' = Put(banners, r.port, r.banner)
    /\ UNCHANGED <<ports, net, grabPc, submitted, started, consumed,
                   error_count, error_types, mainVars, callVars>>

\* FinishProbe for a socket without settimeout(2): a probe whose peer
\* never answers never returns
FinishProbeNoTimeout(i) ==
    /\ grabPc = "running"
    /\ i \in running
    /\ net[ports[i]] \notin {"connect_timeout", "silent"}
    /\ running' = running \ {i}
    /\ futures' = Put(futures, i, threaded_banner_grab(Target, ports[i], net[ports[i]]))
    /\ UNCHANGED <<ports, net, grabPc, submitted, started, consumed, banners,
                   error_count, error_types, mainVars, callVars>>

\* threaded_banner_grab returns in a pool thread: its future is done
FinishProbe(i) ==
    /\ grabPc = "running"
    /\ i \in running
    /\ running' = running \ {i}
    /\ futures' = Put(futures, i, threaded_banner_grab(Target, ports[i], net[ports[i]]))
    /\ UNCHANGED <<ports, net, grabPc, submitted, started, consumed, banners,
                   error_count, error_types, mainVars, callVars>>

\* error_types[error_type] = error_types.get(error_type, 0) + 1
Tally(tally, error_type) == Put(tally, error_type, Get(tally, error_type, 0) + 1)

\* Collect with "banners[port] = banner" moved into the branch of the
\* successful banners
CollectDropsErrors(i) ==
    /\ grabPc = "running"
    /\ submitted = Len(ports)
    /\ i \in DOMAIN futures
    /\ i \notin consumed
    /\ LET port == futures[i].port
           banner == futures[i].banner
       IN  IF IsErrorBanner(banner)
           THEN /\ error_count' = error_count + 1
                /\ error_types' = Tally(error_types, ErrorType(banner))
                /\ UNCHANGED banners
           ELSE /\ banners' = Put(banners, port, banner)
                /\ UNCHANGED <<error_count, error_types>>
    /\ consumed' = consumed \cup {i}
    /\ UNCHANGED <<ports, net, grabPc, submitted, started, running, futures,
                   mainVars, callVars>>

\* one pass of the "for future in as_completed(...)" loop, in the thread
\* that called banner_grabbing.  future.result() cannot raise here:
\* threaded_banner_grab turns every exception into a returned pair.
Collect(i) ==
    /\ grabPc = "running"
    /\ submitted = Len(ports)
    /\ i \in DOMAIN futures
    /\ i \notin consumed
    /\ LET port == futures[i].port
           banner == futures[i].banner
       IN  /\ banners' = Put(banners, port, banner)
           /\ IF IsErrorBanner(banner)
              THEN /\ error_count' = error_count + 1
                   /\ error_types' = Tally(error_types, ErrorType(banner))
              ELSE UNCHANGED <<error_count, error_types>>
    /\ consumed' = consumed \cup {i}
    /\ UNCHANGED <<ports, net, grabPc, submitted, started, running, futures,
                   mainVars, callVars>>

\* as_completed is exhausted, the "with" block shuts the pool down and
\* banner_grabbing returns banners
ReturnBanners ==
    /\ grabPc = "running"
    /\ submitted = Len(ports)
    /\ consumed = DOMAIN ports
    /\ grabPc' = "returned"
    /\ UNCHANGED <<ports, net, submitted, started, running, futures, consumed,
                   banners, error_count, error_types, mainVars, callVars>>

-----------------------------------------------------------------------------
(* Port lists as the scanning engine is given them.                        *)

Digits == <<"0", "1", "2", "3", "4", "5", "6", "7", "8", "9">>

\* int(s) for a string of decimal digits
RECURSIVE ParseInt(_)
ParseInt(s) ==
    IF Len(s) = 0 THEN 0
    ELSE LET last == SubSeq(s, Len(s), Len(s))
             d == CHOOSE k \in 1..10 : Digits[k] = last
         IN  10 * ParseInt(SubSeq(s, 1, Len(s) - 1)) + (d - 1)

\* s.split(sep) for a one-character sep
RECURSIVE Split(_, _)
Split(s, sep) ==
    LET k == IndexOf(s, sep, 1)
    IN  IF k = 0 THEN <<s>>
        ELSE <<SubSeq(s, 1, k - 1)>> \o Split(SubSeq(s, k + 1, Len(s)), sep)

\* ','.join(map(str, ports))
RECURSIVE JoinPorts(_)
JoinPorts(ps) ==
    IF Len(ps) = 0 THEN ""
    ELSE IF Len(ps) = 1 THEN ToString(ps[1])
    ELSE ToString(ps[1]) \o "," \o JoinPorts(Tail(ps))

\* f"{start_port}-{end_port}"
RangeText(start_port, end_port) == ToString(start_port) \o "-" \o ToString(end_port)

\* the ports one item of a port specification names: "n" or "a-b"
ItemPorts(item) ==
    LET parts == Split(item, "-")
    IN  IF Len(parts) = 2 THEN ParseInt(parts[1])..ParseInt(parts[2])
        ELSE {ParseInt(item)}

\* the ports the engine probes for a "ports" argument ("21,443" or "1-1024")
SpecPorts(text) ==
    IF text = "" THEN {}
    ELSE LET items == Split(text, ",")
         IN  UNION {ItemPorts(items[k]) : k \in DOMAIN items}

AllPorts == 1..65535

\* the ports one nm.scan call probes: "-p-" in its arguments means all
EnginePorts(call) ==
    IF call.ports = None THEN AllPorts ELSE SpecPorts(call.ports)

\* sorted(ports), for a set of ports
RECURSIVE Sorted(_)
Sorted(S) ==
    IF S = {} THEN <<>>
    ELSE LET m == CHOOSE x \in S : \A y \in S : x <= y
         IN  <<m>> \o Sorted(S \ {m})

-----------------------------------------------------------------------------
(* Service names and the report.                                           *)

\* the common_ports table of get_service_name
common_ports ==
    (21 :> "FTP") @@ (22 :> "SSH") @@ (23 :> "Telnet") @@ (25 :> "SMTP") @@
    (53 :> "DNS") @@ (67 :> "DHCP") @@ (68 :> "DHCP-Client") @@ (69 :> "TFTP") @@
    (80 :> "HTTP") @@ (88 :> "Kerberos") @@ (110 :> "POP3") @@ (123 :> "NTP") @@
    (135 :> "MS-RPC") @@ (139 :> "NetBIOS-SSN") @@ (143 :> "IMAP") @@
    (161 :> "SNMP") @@ (162 :> "SNMP-Trap") @@ (389 :> "LDAP") @@
    (443 :> "HTTPS") @@ (445 :> "Microsoft-DS") @@ (464 :> "Kpasswd5") @@
    (465 :> "SMTPS") @@ (587 :> "SMTP Submission") @@ (593 :> "RPC-over-HTTP") @@
    (636 :> "LDAPS") @@ (993 :> "IMAPS") @@ (995 :> "POP3S") @@
    (1433 :> "MS-SQL-S") @@ (1521 :> "Oracle") @@ (3268 :> "GlobalCatalog") @@
    (3269 :> "GlobalCatalog-SSL") @@ (3306 :> "MySQL") @@
    (3389 :> "MS-WBT-Server") @@ (5357 :> "WSDAPI") @@ (5432 :> "PostgreSQL") @@
    (5900 :> "VNC") @@ (5985 :> "WinRM-HTTP") @@ (5986 :> "WinRM-HTTPS") @@
    (6379 :> "Redis") @@ (8080 :> "HTTP-Proxy") @@ (8443 :> "HTTPS-Alt") @@
    (9389 :> "MC-NMF") @@ (27017 :> "MongoDB") @@ (47001 :> "WinRM") @@
    (49152 :> "Dynamic-RPC") @@ (49153 :> "Dynamic-RPC") @@
    (49154 :> "Dynamic-RPC") @@ (49155 :> "Dynamic-RPC") @@
    (49156 :> "Dynamic-RPC") @@ (49157 :> "Dynamic-RPC") @@
    (49158 :> "Dynamic-RPC")

\* get_service_name without the dynamic range test: the table alone
TableNameOnly(port) == Get(common_ports, port, "Unknown")

\* get_service_name(port): the dynamic range first, then the table
get_service_name(port) ==
    IF 49152 <= port /\ port <= 65535 THEN "Dynamic-RPC"
    ELSE Get(common_ports, port, "Unknown")

\* name[ product][ version][ (extrainfo)], as nmap_logger builds it
ServiceDescription(service_name, product, version, extrainfo) ==
    service_name
        \o (IF product # "" THEN " " \o product ELSE "")
        \o (IF version # "" THEN " " \o version ELSE "")
        \o (IF extrainfo # "" THEN " (" \o extrainfo \o ")" ELSE "")

\* one entry of the report's open_ports array (the clock field scan_time
\* is left out)
PortData(port, results) ==
    LET detailed_info == Get(results, port, EmptyDict)
        service_name == Get(detailed_info, "service", get_service_name(port))
        product == Get(detailed_info, "product", "")
        version == Get(detailed_info, "version", "")
        extrainfo == Get(detailed_info, "extrainfo", "")
    IN  [port_number |-> port,
         service |-> service_name,
         product |-> product,
         version |-> version,
         extrainfo |-> extrainfo,
         service_description |->
             ServiceDescription(service_name, product, version, extrainfo),
         script_results |-> Get(detailed_info, "script_results", EmptyDict),
         cpe |-> Get(detailed_info, "cpe", ""),
         state |-> Get(detailed_info, "state", "open")]

\* socket.gethostbyaddr(target)[0] and its two except clauses
ResolveOutcomes == {"resolved", "herror", "error"}
Hostname(resolve) ==
    CASE resolve = "resolved" -> "host.example.net"
      [] resolve = "herror"   -> "Unable to resolve"
      [] OTHER                -> "Error resolving: " \o "timed out"

\* scan_data with entries only for the ports that have a Stage 2 record
ScanDataRecordedOnly(ps, target, start_port, end_port, hostname, results) ==
    LET recorded == SelectSeq(ps, LAMBDA port : port \in DOMAIN results)
    IN  [metadata |->
            [target_ip |-> target,
             target_hostname |-> hostname,
             ports_scanned |-> [start |-> start_port, end |-> end_port,
                                total |-> end_port - start_port + 1],
             open_ports_count |-> Len(ps),
             scan_method |-> "Two-stage: Fast discovery + Comprehensive service detection"],
         open_ports |-> [k \in DOMAIN recorded |-> PortData(recorded[k], results)]]

\* scan_data of nmap_logger (the clock fields scan_time and
\* scan_duration_seconds are left out)
ScanData(ps, target, start_port, end_port, hostname, results) ==
    [metadata |->
        [target_ip |-> target,
         target_hostname |-> hostname,
         ports_scanned |-> [start |-> start_port, end |-> end_port,
                            total |-> end_port - start_port + 1],
         open_ports_count |-> Len(ps),
         scan_method |-> "Two-stage: Fast discovery + Comprehensive service detection"],
     open_ports |-> [k \in DOMAIN ps |-> PortData(ps[k], results)]]

-----------------------------------------------------------------------------
(* The external scanning engine, at its interface.                         *)

\* the ports of the target the model follows (others are closed)
ScanUniverse == {21, 443, 3306, 49152}

\* the first three choices of get_port_range, and a custom range
PortRanges == {<<1, 1024>>, <<1, 5000>>, <<1, 65535>>, <<3000, 4000>>}

PortStates == {"open", "closed", "filtered"}

\* what one nm.scan call can come back with: an exception, or a result
\* whose all_hosts() holds the target or not, with a tcp table
Raised == [kind |-> "raise", hosts |-> {}, tcp |-> EmptyDict]
Answer(hosts, tcp) == [kind |-> "result", hosts |-> hosts, tcp |-> tcp]

\* Stage 1 answers: a state for each followed port the call probes
Stage1Answers(call) ==
    {Raised, Answer({}, EmptyDict)}
        \cup {Answer({Target}, tcp) :
                tcp \in [ScanUniverse \cap EnginePorts(call) -> PortStates]}

\* the port_info of a port in a Stage 2 answer: every field, or none
InfoVariants == {"full", "bare"}
EngineInfo(port, variant) ==
    IF variant = "bare" THEN EmptyDict
    ELSE [state |-> "open",
          name |-> CASE port = 21 -> "ftp" [] port = 443 -> "https"
                     [] port = 3306 -> "mysql" [] OTHER -> "msrpc",
          product |-> CASE port = 21 -> "vsftpd" [] port = 443 -> "nginx"
                        [] port = 3306 -> "MySQL" [] OTHER -> "",
          version |-> CASE port = 21 -> "3.0.3" [] port = 3306 -> "5.7.33"
                        [] OTHER -> "",
          extrainfo |-> IF port = 3306 THEN "unauthorized" ELSE "",
          script |-> IF port = 21
                     THEN ("ftp-anon" :> "Anonymous FTP login allowed (FTP code 230)")
                     ELSE EmptyDict,
          cpe |-> IF port = 21 THEN "cpe:/a:vsftpd:vsftpd:3.0.3" ELSE ""]

\* Stage 2 answers: the engine is not trusted to answer only on the ports
\* it was asked about
Stage2Answers ==
    {Raised, Answer({}, EmptyDict)}
        \cup {Answer({Target}, [p \in keys |-> EngineInfo(p, v)]) :
                keys \in SUBSET ScanUniverse, v \in InfoVariants}

-----------------------------------------------------------------------------
(* The scan orchestrator: fast_port_discovery, comprehensive_service_scan  *)
(* and scan_ports.                                                         *)

\* the test written "open_ports is None": a list is never None
NoPortsIsNone(ps) == FALSE

\* "not open_ports": the list is empty
NoPorts(ps) == Len(ps) = 0

\* the nm.scan call of fast_port_discovery
Stage1Call(target, start_port, end_port) ==
    IF start_port = 1 /\ end_port = 65535
    THEN [stage |-> 1, target |-> target, ports |-> None,
          arguments |-> "-Pn -p- --min-rate=1000 -T4"]
    ELSE [stage |-> 1, target |-> target,
          ports |-> RangeText(start_port, end_port),
          arguments |-> "-Pn --min-rate=1000 -T4"]

\* what fast_port_discovery returns for an engine answer
FastOpenPorts(target, answer) ==
    IF answer.kind = "raise" THEN <<>>
    ELSE IF target \in answer.hosts
         THEN Sorted({p \in DOMAIN answer.tcp : answer.tcp[p] = "open"})
         ELSE <<>>

\* Stage2Call scanning the whole range again instead of the open ports
Stage2CallFullRange(target, ps) ==
    [stage |-> 2, target |-> target, ports |-> RangeText(1, 65535),
     arguments |-> "-Pn -sC -sV"]

\* the nm.scan call of comprehensive_service_scan
Stage2Call(target, ps) ==
    [stage |-> 2, target |-> target, ports |-> JoinPorts(ps),
     arguments |-> "-Pn -sC -sV"]

\* detailed_results[port] for the engine's port_info
DetailedRecord(port_info) ==
    [state |-> Get(port_info, "state", "unknown"),
     service |-> Get(port_info, "name", "unknown"),
     version |-> Get(port_info, "version", ""),
     product |-> Get(port_info, "product", ""),
     extrainfo |-> Get(port_info, "extrainfo", ""),
     script_results |-> Get(port_info, "script", EmptyDict),
     cpe |-> Get(port_info, "cpe", "")]

\* what comprehensive_service_scan returns for an engine answer
DetailedResults(target, ps, answer) ==
    IF answer.kind = "raise" THEN EmptyDict
    ELSE IF target \in answer.hosts
         THEN [p \in {q \in Range(ps) : q \in DOMAIN answer.tcp} |->
                  DetailedRecord(answer.tcp[p])]
         ELSE EmptyDict

\* what a stage returned: whether it failed, and the ports of its result
StageReturn(stage, failed, result_ports) ==
    [stage |-> stage, failed |-> failed, ports |-> result_ports]

\* scan_ports begins: fast_port_discovery up to its nm.scan call.  When
\* nmap cannot be imported it returns [] and scan_ports returns [] too.
FastDiscoveryCall ==
    /\ pc = "scan_ports"
    /\ IF ~nmap_importable
       THEN /\ messages' = messages \o <<"python-nmap package not found",
                                         "No open ports found during fast discovery">>
            /\ stage_log' = Append(stage_log, StageReturn(1, TRUE, {}))
            /\ open_ports' = <<>>
            /\ pc' = "scanned"
            /\ UNCHANGED <<engine_calls, engine_busy>>
       ELSE /\ engine_calls' = Append(engine_calls,
                                      Stage1Call(Target, port_range[1], port_range[2]))
            /\ engine_busy' = TRUE
            /\ pc' = "stage1_engine"
            /\ UNCHANGED <<messages, stage_log, open_ports>>
    /\ UNCHANGED <<nmap_importable, port_range, scan_detailed_results, summary,
                   report, report_saved, grabVars, callVars>>

\* FastDiscoveryReturn without the "except Exception" around nm.scan: the
\* engine's exception leaves fast_port_discovery and scan_ports and ends
\* the run in the handler of __main__
FastDiscoveryReturnUncaught(answer) ==
    /\ pc = "stage1_engine"
    /\ engine_busy' = FALSE
    /\ LET found == FastOpenPorts(Target, answer)
       IN  IF answer.kind = "raise"
           THEN /\ messages' = Append(messages, "Unexpected error")
                /\ pc' = "error_exit"
                /\ UNCHANGED <<open_ports, stage_log>>
           ELSE /\ open_ports' = found
                /\ stage_log' = Append(stage_log, StageReturn(1, FALSE, Range(found)))
                /\ messages' = messages
                       \o (IF NoPorts(found)
                           THEN <<"No open ports found during fast discovery">>
                           ELSE <<>>)
                /\ pc' = IF NoPorts(found) THEN "scanned" ELSE "stage2"
    /\ UNCHANGED <<nmap_importable, port_range, engine_calls,
                   scan_detailed_results, summary, report, report_saved, grabVars, callVars>>

\* nm.scan of Stage 1 comes back; fast_port_discovery returns its sorted
\* list and scan_ports tests it
FastDiscoveryReturn(answer) ==
    /\ pc = "stage1_engine"
    /\ engine_busy' = FALSE
    /\ LET found == FastOpenPorts(Target, answer)
       IN  /\ open_ports' = found
           /\ stage_log' = Append(stage_log,
                                  StageReturn(1, answer.kind = "raise", Range(found)))
           /\ messages' = messages
                  \o (IF answer.kind = "raise"
                      THEN <<"Fast port discovery error">> ELSE <<>>)
                  \o (IF NoPorts(found)
                      THEN <<"No open ports found during fast discovery">> ELSE <<>>)
           /\ pc' = IF NoPorts(found) THEN "scanned" ELSE "stage2"
    /\ UNCHANGED <<nmap_importable, port_range, engine_calls,
                   scan_detailed_results, summary, report, report_saved, grabVars, callVars>>

\* comprehensive_service_scan up to its nm.scan call.  With no ports, or
\* without nmap, it returns {} at once; scan_ports stores that and returns.
ComprehensiveCall ==
    /\ pc = "stage2"
    /\ IF NoPorts(open_ports) \/ ~nmap_importable
       THEN /\ messages' = Append(messages,
                                  IF NoPorts(open_ports)
                                  THEN "[STAGE 2] No open ports to scan"
                                  ELSE "python-nmap package not found")
            /\ stage_log' = Append(stage_log,
                                   StageReturn(2, ~NoPorts(open_ports), {}))
            /\ scan_detailed_results' = EmptyDict
            /\ pc' = "scanned"
            /\ UNCHANGED <<engine_calls, engine_busy>>
       ELSE /\ engine_calls' = Append(engine_calls, Stage2Call(Target, open_ports))
            /\ engine_busy' = TRUE
            /\ pc' = "stage2_engine"
            /\ UNCHANGED <<messages, stage_log, scan_detailed_results>>
    /\ UNCHANGED <<nmap_importable, port_range, open_ports, summary, report,
                   report_saved, grabVars, callVars>>

\* nm.scan of Stage 2 comes back; comprehensive_service_scan returns its
\* mapping, scan_ports stores it in the global and returns open_ports
ComprehensiveReturn(answer) ==
    /\ pc = "stage2_engine"
    /\ engine_busy' = FALSE
    /\ LET detailed_results == DetailedResults(Target, open_ports, answer)
       IN  /\ scan_detailed_results' = detailed_results
           /\ stage_log' = Append(stage_log,
                                  StageReturn(2, answer.kind = "raise",
                                              DOMAIN detailed_results))
    /\ messages' = IF answer.kind = "raise"
                   THEN Append(messages, "Comprehensive service scan error")
                   ELSE messages
    /\ pc' = "scanned"
    /\ UNCHANGED <<nmap_importable, port_range, engine_calls, open_ports,
                   summary, report, report_saved, grabVars, callVars>>

-----------------------------------------------------------------------------
(* analyze_security_posture.                                               *)

\* "sub in s" for two strings
Contains(s, sub) ==
    \E i \in 1..(Len(s) - Len(sub) + 1) : SubSeq(s, i, i + Len(sub) - 1) = sub

\* sep.join(strs)
RECURSIVE Join(_, _)
Join(strs, sep) ==
    IF Len(strs) = 0 THEN ""
    ELSE IF Len(strs) = 1 THEN strs[1]
    ELSE strs[1] \o sep \o Join(Tail(strs), sep)

\* str(ps) for a list of integers, as an f-string prints it: "[80, 443]"
ListRepr(ps) ==
    "[" \o Join([k \in DOMAIN ps |-> ToString(ps[k])], ", ") \o "]"

ad_ports ==
    (88 :> "Kerberos") @@ (389 :> "LDAP") @@ (636 :> "LDAPS")
        @@ (3268 :> "Global Catalog") @@ (3269 :> "Global Catalog SSL")
db_ports ==
    (1433 :> "MS-SQL") @@ (3306 :> "MySQL") @@ (5432 :> "PostgreSQL")
        @@ (1521 :> "Oracle")
remote_ports ==
    (22 :> "SSH") @@ (3389 :> "RDP") @@ (5985 :> "WinRM")
        @@ (5986 :> "WinRM-HTTPS") @@ (23 :> "Telnet")
web_port_list == <<80, 443, 8080, 8443>>

\* [table[port] for port in ps if port in table]
NamesFound(ps, table) ==
    LET found == SelectSeq(ps, LAMBDA port : port \in DOMAIN table)
    IN  [k \in DOMAIN found |-> table[found[k]]]

\* the Active Directory rule with "len(ad_services_found) >= 1"
AdInsightOnePort(ps) ==
    IF Len(SelectSeq(ps, LAMBDA port : port \in DOMAIN ad_ports)) >= 1
    THEN <<"Domain Controller detected - Kerberos, LDAP services indicate AD environment">>
    ELSE <<>>

\* the Active Directory rule
AdInsight(ps) ==
    LET ad_services_found == SelectSeq(ps, LAMBDA port : port \in DOMAIN ad_ports)
    IN  IF Len(ad_services_found) >= 2
        THEN <<"Domain Controller detected - Kerberos, LDAP services indicate AD environment">>
        ELSE <<>>

\* the database rule
DbInsight(ps) ==
    LET db_services_found == NamesFound(ps, db_ports)
    IN  IF Len(db_services_found) > 0
        THEN <<"Database services detected: " \o Join(db_services_found, ", ")
                 \o " - Potential data targets">>
        ELSE <<>>

\* the remote access rule
RemoteInsight(ps) ==
    LET remote_services_found == NamesFound(ps, remote_ports)
    IN  IF Len(remote_services_found) > 0
        THEN <<"Remote access services: " \o Join(remote_services_found, ", ")
                 \o " - Authentication targets">>
        ELSE <<>>

\* the file sharing rule
SmbInsight(ps) ==
    IF 445 \in Range(ps)
    THEN <<"SMB service detected - Check for anonymous access and share enumeration">>
    ELSE <<>>

\* the anonymous FTP rule, on the script results of port 21
FtpInsight(ps, detailed_results) ==
    IF 21 \in Range(ps)
    THEN LET ftp_info == Get(detailed_results, 21, EmptyDict)
             scripts == Get(ftp_info, "script_results", EmptyDict)
         IN  IF "ftp-anon" \in DOMAIN scripts
                  /\ Contains(scripts["ftp-anon"], "Anonymous FTP login allowed")
             THEN <<"Anonymous FTP access enabled - Potential information disclosure">>
             ELSE <<>>
    ELSE <<>>

\* the web rule with a port list that lacks 8443
WebInsightThreePorts(ps) ==
    LET web_ports == SelectSeq(ps, LAMBDA port : port \in {80, 443, 8080})
    IN  IF Len(web_ports) > 0
        THEN <<"Web services on ports " \o ListRepr(web_ports)
                 \o " - Web application attack surface">>
        ELSE <<>>

\* the web rule
WebInsight(ps) ==
    LET web_ports == SelectSeq(ps, LAMBDA port : port \in Range(web_port_list))
    IN  IF Len(web_ports) > 0
        THEN <<"Web services on ports " \o ListRepr(web_ports)
                 \o " - Web application attack surface">>
        ELSE <<>>

\* the Telnet rule
TelnetInsight(ps) ==
    IF 23 \in Range(ps)
    THEN <<"Telnet service detected - Unencrypted protocol, consider SSH alternative">>
    ELSE <<>>

\* the port count rule
PortCountInsight(ps) ==
    IF Len(ps) > 20
    THEN <<"High number of open ports (" \o ToString(Len(ps))
             \o ") - Review service necessity">>
    ELSE <<>>

\* analyze_security_posture with the Telnet rule placed before the web rule
AnalyzeTelnetBeforeWeb(ps, detailed_results) ==
    AdInsight(ps) \o DbInsight(ps) \o RemoteInsight(ps) \o SmbInsight(ps)
        \o FtpInsight(ps, detailed_results) \o TelnetInsight(ps)
        \o WebInsight(ps) \o PortCountInsight(ps)

\* analyze_security_posture(open_ports, detailed_results): the insights
\* list, each rule appending to it in the order of the code
analyze_security_posture(ps, detailed_results) ==
    AdInsight(ps) \o DbInsight(ps) \o RemoteInsight(ps) \o SmbInsight(ps)
        \o FtpInsight(ps, detailed_results) \o WebInsight(ps)
        \o TelnetInsight(ps) \o PortCountInsight(ps)

-----------------------------------------------------------------------------
(* __main__ after scan_ports: print_summary and nmap_logger.               *)

\* AfterScan without the "if open_ports:" test: the summary and the report
\* are made for every run
AfterScanAlwaysReports ==
    /\ pc = "scanned"
    /\ summary' = Append(summary, open_ports)
    /\ pc' = "report"
    /\ UNCHANGED <<nmap_importable, port_range, engine_calls, engine_busy,
                   stage_log, open_ports, scan_detailed_results, report,
                   report_saved, messages, grabVars, callVars>>

\* "if open_ports:" of __main__: print_summary over the returned list,
\* which logs the security insights, or the "No open ports found." line and
\* the end of the run
AfterScan ==
    /\ pc = "scanned"
    /\ IF ~NoPorts(open_ports)
       THEN /\ summary' = Append(summary, open_ports)
            /\ LET security_insights ==
                       analyze_security_posture(open_ports, scan_detailed_results)
               IN  messages' = messages
                       \o [k \in DOMAIN security_insights |->
                              "[!] " \o security_insights[k]]
            /\ pc' = "report"
       ELSE /\ messages' = Append(messages, "No open ports found.")
            /\ pc' = "done"
            /\ UNCHANGED summary
    /\ UNCHANGED <<nmap_importable, port_range, engine_calls, engine_busy,
                   stage_log, open_ports, scan_detailed_results, report,
                   report_saved, grabVars, callVars>>

\* what the file system does to the first steps of nmap_logger:
\*   ok            the directory exists or is made, the file is opened
\*   makedirs      os.makedirs raises (outside any try of nmap_logger)
\*   denied        open raises PermissionError
\*   error         open raises another exception
OpenOutcomes == {"ok", "makedirs", "denied", "error"}

\* what the file system does to json.dump and to os.chmod
IoOutcomes == {"ok", "denied", "error"}

\* the log line of the except clauses of nmap_logger
SaveFailure(io) ==
    IF io = "denied" THEN "Failed to save scan results: Permission denied"
    ELSE "Failed to save scan results"

\* nmap_logger(open_ports, ...) up to open(log_filename, 'w'): an
\* os.makedirs failure leaves through the "except Exception" of __main__;
\* otherwise the host name is resolved, the document is built and the file
\* is opened, which creates it empty; a failure of open is logged
NmapLoggerOpen(resolve, io) ==
    /\ pc = "report"
    /\ IF io = "makedirs"
       THEN /\ messages' = Append(messages, "Unexpected error")
            /\ pc' = "error_exit"
            /\ UNCHANGED <<report, report_saved>>
       ELSE /\ report' = Append(report,
                                ScanData(open_ports, Target, port_range[1],
                                         port_range[2], Hostname(resolve),
                                         scan_detailed_results))
            /\ IF io = "ok"
               THEN /\ report_saved' = "partial"
                    /\ pc' = "dump"
                    /\ UNCHANGED messages
               ELSE /\ messages' = Append(messages, SaveFailure(io))
                    /\ pc' = "done"
                    /\ UNCHANGED report_saved
    /\ UNCHANGED <<nmap_importable, port_range, engine_calls, engine_busy,
                   stage_log, open_ports, scan_detailed_results, summary,
                   grabVars, callVars>>

\* json.dump(scan_data, f, indent=4) and the end of the with block: the
\* file holds the whole document and the operator is told; or the dump
\* raises, the file is closed with what was written, the failure is logged
NmapLoggerDump(io) ==
    /\ pc = "dump"
    /\ IF io = "ok"
       THEN /\ report_saved' = "written"
            /\ messages' = Append(messages, "Comprehensive scan results saved")
            /\ pc' = "chmod"
       ELSE /\ messages' = Append(messages, SaveFailure(io))
            /\ pc' = "done"
            /\ UNCHANGED report_saved
    /\ UNCHANGED <<nmap_importable, port_range, engine_calls, engine_busy,
                   stage_log, open_ports, scan_detailed_results, summary,
                   report, grabVars, callVars>>

\* os.chmod(log_filename, 0o644), a failure of it being logged, and the
\* return of nmap_logger
NmapLoggerChmod(io) ==
    /\ pc = "chmod"
    /\ messages' = IF io = "ok" THEN messages
                   ELSE Append(messages, SaveFailure(io))
    /\ pc' = "done"
    /\ UNCHANGED <<nmap_importable, port_range, engine_calls, engine_busy,
                   stage_log, open_ports, scan_detailed_results, summary,
                   report, report_saved, grabVars, callVars>>

\* the run is over, one way or another
Ended == pc \in {"done", "error_exit", "interrupted"}

\* KeyboardInterrupt: no function of the run catches it, __main__ logs
\* the interruption and the process ends
Interrupt ==
    /\ pc # "idle"
    /\ ~Ended
    /\ pc' = "interrupted"
    /\ engine_busy' = FALSE
    /\ messages' = Append(messages, "Scan interrupted by user. Exiting...")
    /\ UNCHANGED <<nmap_importable, port_range, engine_calls, stage_log,
                   open_ports, scan_detailed_results, summary, report,
                   report_saved, grabVars, callVars>>

-----------------------------------------------------------------------------
(* The specifications.                                                     *)

\* the banner grabber at rest, for the runs of __main__ (which never
\* calls it)
GrabIdle ==
    /\ ports = <<>>
    /\ net = EmptyDict
    /\ grabPc = "idle"
    /\ submitted = 0
    /\ started = 0
    /\ running = {}
    /\ futures = EmptyDict
    /\ consumed = {}
    /\ banners = EmptyDict
    /\ error_count = 0
    /\ error_types = EmptyDict

\* __main__ at rest, for the runs of banner_grabbing alone
MainIdle ==
    /\ pc = "idle"
    /\ nmap_importable = TRUE
    /\ port_range = <<1, 1024>>
    /\ engine_calls = <<>>
    /\ engine_busy = FALSE
    /\ stage_log = <<>>
    /\ open_ports = <<>>
    /\ scan_detailed_results = EmptyDict
    /\ summary = <<>>
    /\ report = <<>>
    /\ report_saved = "no"
    /\ messages = <<>>

\* no function is called on its own
CallIdle ==
    /\ args = <<>>
    /\ returns = <<>>

\* a run of __main__, from the call of scan_ports: the prompt has given a
\* port range, the module-level results store is empty
Init ==
    /\ GrabIdle
    /\ CallIdle
    /\ pc = "scan_ports"
    /\ nmap_importable \in BOOLEAN
    /\ port_range \in PortRanges
    /\ engine_calls = <<>>
    /\ engine_busy = FALSE
    /\ stage_log = <<>>
    /\ open_ports = <<>>
    /\ scan_detailed_results = EmptyDict
    /\ summary = <<>>
    /\ report = <<>>
    /\ report_saved = "no"
    /\ messages = <<>>

\* the answers the engine can give to the call it is busy with
PendingAnswers ==
    IF ~engine_busy THEN {}
    ELSE LET call == engine_calls[Len(engine_calls)]
         IN  IF call.stage = 1 THEN Stage1Answers(call) ELSE Stage2Answers

Next ==
    \/ FastDiscoveryCall
    \/ \E answer \in PendingAnswers : FastDiscoveryReturn(answer)
    \/ ComprehensiveCall
    \/ \E answer \in PendingAnswers : ComprehensiveReturn(answer)
    \/ AfterScan
    \/ \E resolve \in ResolveOutcomes, io \in OpenOutcomes :
          NmapLoggerOpen(resolve, io)
    \/ \E io \in IoOutcomes : NmapLoggerDump(io)
    \/ \E io \in IoOutcomes : NmapLoggerChmod(io)
    \/ Interrupt

Spec == Init /\ [][Next]_vars

\* the ports the detailed banner-grabbing scenarios draw from: a catalog
\* port, a port outside the catalog, two SSL/TLS ports (one in the catalog
\* with None, one outside it) and a binary-probe port
GrabUniverse == {21, 23, 443, 993, 3306}

\* the load scenario: NumLoadPorts ports, more than the pool has threads
LoadPorts == [k \in 1..NumLoadPorts |-> 1000 + k]
LoadNet ==
    [p \in Range(LoadPorts) |->
        CASE p % 3 = 0 -> "refused" [] p % 3 = 1 -> "banner" [] OTHER -> "silent"]

\* banner_grabbing has just been called: nothing is submitted yet
GrabStart ==
    /\ grabPc = "running"
    /\ submitted = 0
    /\ started = 0
    /\ running = {}
    /\ futures = EmptyDict
    /\ consumed = {}
    /\ banners = EmptyDict
    /\ error_count = 0
    /\ error_types = EmptyDict

\* banner_grabbing(target, ports) is called: a sorted port list of at most
\* MaxGrabPorts ports, and a network behaviour for each of its ports
InitGrab ==
    /\ MainIdle
    /\ CallIdle
    /\ \E S \in SUBSET GrabUniverse :
          /\ Cardinality(S) <= MaxGrabPorts
          /\ ports = Sorted(S)
    /\ net \in [Range(ports) -> Behaviours]
    /\ GrabStart

\* banner_grabbing(target, ports) is called under load
InitLoad ==
    /\ MainIdle
    /\ CallIdle
    /\ ports = LoadPorts
    /\ net = LoadNet
    /\ GrabStart

NextGrab ==
    \/ Submit
    \/ StartProbe
    \/ \E i \in running : FinishProbe(i)
    \/ \E i \in DOMAIN futures : Collect(i)
    \/ ReturnBanners

SpecGrab == InitGrab /\ [][NextGrab]_vars

SpecLoad == InitLoad /\ [][NextGrab]_vars

\* the scheduling the banner grabber runs under: the thread that called
\* banner_grabbing goes on while it has something to do, a free pool thread
\* takes queued work, and a started probe returns (every socket operation
\* is bounded by settimeout(2))
GrabFairness ==
    /\ WF_vars(Submit)
    /\ WF_vars(StartProbe)
    /\ WF_vars(\E i \in running : FinishProbe(i))
    /\ WF_vars(\E i \in DOMAIN futures : Collect(i))
    /\ WF_vars(ReturnBanners)

\* the ports the runs under fairness draw from: a catalog port with a
\* payload, a port outside the catalog and an SSL/TLS port
FairUniverse == {21, 23, 443}

\* banner_grabbing(target, ports) is called, as in InitGrab
InitGrabFair ==
    /\ MainIdle
    /\ CallIdle
    /\ \E S \in SUBSET FairUniverse :
          /\ Cardinality(S) <= MaxGrabPorts
          /\ ports = Sorted(S)
    /\ net \in [Range(ports) -> Behaviours]
    /\ GrabStart

SpecGrabFair == InitGrabFair /\ [][NextGrab]_vars /\ GrabFairness

-----------------------------------------------------------------------------
(* Properties of the banner grabber.                                       *)

\* the ports whose completions the as_completed loop has gone through
ConsumedPorts == {ports[i] : i \in consumed}

\* C1: for every submitted port list, whatever each probe met (refused,
\* timeout, reset, OS error, success) and in whatever order the workers
\* complete, the mapping banner_grabbing returns has exactly one entry for
\* each submitted port and none for any other port; the entry is the banner
\* that port's probe returned.
C1_NoPortDropped ==
    /\ DOMAIN banners \subseteq Range(ports)
    /\ \A i \in consumed :
          /\ ports[i] \in DOMAIN banners
          /\ banners[ports[i]] = futures[i].banner
    /\ grabPc = "returned" => DOMAIN banners = Range(ports)

\* C1 witness: banner_grabbing has returned for two ports, one refused and
\* one whose read was reset
C1_Witness ==
    /\ grabPc = "returned"
    /\ Len(ports) = 2
    /\ \E p, q \in Range(ports) : net[p] = "refused" /\ net[q] = "reset"
    /\ DOMAIN banners = Range(ports)

\* C2: at every moment of banner_grabbing at most 10 threaded_banner_grab
\* probes have started and not yet returned, however many ports were
\* submitted.
C2_AtMostTenInFlight == Cardinality(running) <= 10

\* C2 witness: every port is submitted, 10 probes are in flight and a
\* further work item waits for a thread
C2_Witness ==
    /\ submitted = Len(ports)
    /\ Cardinality(running) = 10
    /\ started < submitted

\* the banner a port's probe returns, from the port and the network alone
ExpectedBanner(p) == threaded_banner_grab(Target, p, net[p]).banner

\* the tally of the error-tagged banners of a set of ports
ExpectedTally(S) ==
    LET errs == {p \in S : IsErrorBanner(ExpectedBanner(p))}
    IN  [t \in {ErrorType(ExpectedBanner(p)) : p \in errs} |->
            Cardinality({p \in errs : ErrorType(ExpectedBanner(p)) = t})]

\* C3: for a fixed port list and fixed per-port outcomes, the mapping, the
\* error count and the per-error-type tally depend only on which
\* completions the consuming thread has gone through, not on the order in
\* which the probes completed or were consumed; a worker finishing
\* changes none of them; at return they are the same for every order.
C3_OrderIndependent ==
    /\ banners = [p \in ConsumedPorts |-> ExpectedBanner(p)]
    /\ error_count = Cardinality({p \in ConsumedPorts :
                                     IsErrorBanner(ExpectedBanner(p))})
    /\ error_types = ExpectedTally(ConsumedPorts)
    /\ grabPc = "returned" => ConsumedPorts = Range(ports)

\* C3 witness: banner_grabbing has returned with two errors of one type
C3_Witness ==
    /\ grabPc = "returned"
    /\ error_count = 2
    /\ \E t \in DOMAIN error_types : error_types[t] = 2

\* the synthetic result of an SSL/TLS port
SslBanner(p) == "SSL/TLS Service (port " \o ToString(p) \o ")"

\* C4 as claimed: for every port of the SSL/TLS-only set the result is the
\* synthetic "SSL/TLS Service" banner whatever the network does on that
\* port, never an error-tagged value.
C4_SslAlwaysSynthetic ==
    \A i \in DOMAIN futures :
        futures[i].port \in {443, 465, 636, 993, 995, 8443}
            => /\ futures[i].banner = SslBanner(futures[i].port)
               /\ ~IsErrorBanner(futures[i].banner)

\* C4 as amended: for every port of the SSL/TLS-only set on which the TCP
\* connection is established, the result is the synthetic banner whatever
\* the peer does afterwards; when the connect itself fails the result is
\* the error-tagged value of that failure.
C4_SslSyntheticOnceConnected ==
    \A i \in DOMAIN futures :
        LET r == futures[i]
            b == net[r.port]
        IN  r.port \in {443, 465, 636, 993, 995, 8443}
                => /\ ~ConnectFails(b) => /\ r.banner = SslBanner(r.port)
                                          /\ ~IsErrorBanner(r.banner)
                   /\ ConnectFails(b) => IsErrorBanner(r.banner)

\* C4 witness: port 993 answered with a reset after the connection and
\* port 443 refused it
C4_Witness ==
    \E i, j \in DOMAIN futures :
        /\ futures[i].port = 993 /\ net[993] = "reset"
        /\ futures[i].banner = "SSL/TLS Service (port 993)"
        /\ futures[j].port = 443 /\ net[443] = "refused"

\* the ports the Probe Catalog has a payload for
CatalogPayloadPorts == {21, 22, 25, 80, 110, 143, 3306, 5432, 8080}

\* the position of a call in a probe's socket calls, 0 if it was not made
OpIndex(ops, op) ==
    IF \E k \in DOMAIN ops : ops[k] = op
    THEN CHOOSE k \in DOMAIN ops : ops[k] = op
    ELSE 0

\* C5: on a port of the SSL/TLS-only set a probe never sends and never
\* reads; on any other port a payload is sent, before the read, iff the
\* catalog has a non-empty payload for the port, and a port outside the
\* catalog is read with nothing sent.
C5_ProbeDiscipline ==
    \A i \in DOMAIN futures :
        LET r == futures[i]
            sendAt == OpIndex(r.ops, "send")
            recvAt == OpIndex(r.ops, "recv")
        IN  /\ r.port \in {443, 465, 636, 993, 995, 8443}
                => sendAt = 0 /\ recvAt = 0 /\ r.sent = ""
            /\ (r.port \notin {443, 465, 636, 993, 995, 8443} /\ r.connected)
                => /\ sendAt # 0 <=> r.port \in CatalogPayloadPorts
                   /\ sendAt # 0 => r.sent # "" /\ r.sent # None
                   /\ (sendAt # 0 /\ recvAt # 0) => sendAt < recvAt
                   /\ r.port \notin CatalogPayloadPorts
                        => sendAt = 0 /\ r.sent = "" /\ recvAt # 0

\* C5 witness: the probes of ports 21 and 23 both read a banner, the first
\* after sending its payload, the second with nothing sent
C5_Witness ==
    \E i, j \in DOMAIN futures :
        /\ futures[i].port = 21 /\ futures[i].ops = <<"connect", "send", "recv", "close">>
        /\ futures[j].port = 23 /\ futures[j].ops = <<"connect", "recv", "close">>

\* a probe of port p met a socket-layer failure
SocketFailed(p) ==
    \/ ConnectFails(net[p])
    \/ /\ p \notin ssl_ports
       /\ \/ RecvFails(net[p])
          \/ net[p] = "peer_closed" /\ Truthy(ProbeFor(Target, p))

\* C6 as claimed: every port whose probe ended in a socket-layer failure
\* (refused, timeout or reset during connect or read, other OS error) is
\* returned error-tagged and counted once in the error count and in the
\* tally; no socket failure is reported as a successful banner.
C6_EveryFailureTagged ==
    grabPc = "returned" =>
        /\ \A p \in Range(ports) :
              SocketFailed(p) => /\ IsErrorBanner(banners[p])
                                 /\ ErrorType(banners[p]) \in DOMAIN error_types
        /\ error_count = Cardinality({p \in Range(ports) : SocketFailed(p)})

-----------------------------------------------------------------------------
(* Properties of the run of __main__.                                      *)

\* a line the operator was shown
Logged(line) == \E k \in DOMAIN messages : messages[k] = line

\* Stage 1 has returned, with no open port
Stage1ReturnedNone == Len(stage_log) >= 1 /\ stage_log[1].ports = {}

\* the engine invocations made for a stage
CallsOf(stage) == {k \in DOMAIN engine_calls : engine_calls[k].stage = stage}

\* C7: in every run in which Stage 1 returns zero open ports (the engine
\* found none, the target is absent from its output, it raised, or it
\* could not be loaded) the engine is never invoked for Stage 2.
C7_NoStage2WithoutPorts ==
    /\ Stage1ReturnedNone => CallsOf(2) = {}
    /\ \A k \in CallsOf(2) : stage_log[1].ports # {}

\* C7 witness: a run has ended whose Stage 1 engine call raised, after
\* that one engine call
C7_Witness ==
    /\ pc = "done"
    /\ Stage1ReturnedNone
    /\ stage_log[1].failed
    /\ Len(engine_calls) = 1

\* C8 as claimed: when Stage 1 discovers zero open ports the run still
\* ends with a final report, whose open_ports array is empty and whose
\* open_ports_count is 0.
C8_EmptyReportProduced ==
    (pc = "done" /\ Stage1ReturnedNone /\ ~stage_log[1].failed)
        => /\ Len(report) = 1
           /\ report[1].open_ports = <<>>
           /\ report[1].metadata.open_ports_count = 0

\* C8 as amended: when Stage 1 discovers zero open ports the run ends
\* normally with the line "No open ports found." and without any report:
\* neither print_summary nor nmap_logger is called and no file is written.
C8_NoReportWithoutPorts ==
    Stage1ReturnedNone
        => /\ summary = <<>>
           /\ report = <<>>
           /\ report_saved = "no"
           /\ pc \in {"scanned", "done", "interrupted"}
           /\ pc = "done" => Logged("No open ports found.")

\* C8 witness: a run has ended whose Stage 1 engine call answered, with no
\* open port
C8_Witness ==
    /\ pc = "done"
    /\ Stage1ReturnedNone
    /\ ~stage_log[1].failed
    /\ Len(engine_calls) = 1

\* the port list a Stage 2 "ports" argument names, in its order
ParsePortList(text) ==
    LET items == Split(text, ",")
    IN  [k \in DOMAIN items |-> ParseInt(items[k])]

\* C9: the Stage 2 engine invocation starts only after the Stage 1
\* invocation has returned; its port argument is exactly the list of open
\* ports Stage 1 returned, never the requested range nor a port outside
\* the discovered set; every key of the Stage 2 result mapping is a port
\* discovered open in Stage 1.
C9_Stage2OnDiscoveredPorts ==
    /\ \A k \in CallsOf(2) :
          /\ k = 2 /\ engine_calls[1].stage = 1
          /\ Len(stage_log) >= 1 /\ stage_log[1].stage = 1
          /\ engine_calls[k].ports # None
          /\ EnginePorts(engine_calls[k]) = stage_log[1].ports
          /\ ParsePortList(engine_calls[k].ports) = open_ports
    /\ (engine_busy /\ Len(engine_calls) = 1) => stage_log = <<>>
    /\ Len(stage_log) = 2 => stage_log[2].ports \subseteq stage_log[1].ports
    /\ DOMAIN scan_detailed_results \subseteq Range(open_ports)

\* C9 witness: Stage 2 has returned records for some of the two or more
\* ports Stage 1 discovered, not for all
C9_Witness ==
    /\ pc = "scanned"
    /\ Len(engine_calls) = 2
    /\ Len(open_ports) >= 2
    /\ DOMAIN scan_detailed_results # {}
    /\ DOMAIN scan_detailed_results # Range(open_ports)

\* a stage's failure was reported to the operator
FailureReported(stage) ==
    \/ Logged("python-nmap package not found")
    \/ stage = 1 /\ Logged("Fast port discovery error")
    \/ stage = 2 /\ Logged("Comprehensive service scan error")

\* the ports of the entries of a report, in order
ReportPorts(doc) == [k \in DOMAIN doc.open_ports |-> doc.open_ports[k].port_number]

-----------------------------------------------------------------------------
(* Properties of the pipeline of __main__ (continued).                     *)

\* print_summary, and with it the security posture analysis, has run
AnalyzerHasRun == summary # <<>>

\* banner_grabbing has been called on the discovered ports and has returned
GrabberHasRun == grabPc = "returned" /\ ports = open_ports

\* C11: in every run that discovers at least one open port, the banner
\* grabber (and after it the version extractor) has been run over the
\* discovered ports before the security posture analyzer and the report
\* assembler run
C11_GrabberBeforeAnalyzer ==
    /\ AnalyzerHasRun => GrabberHasRun
    /\ report # <<>> => GrabberHasRun

-----------------------------------------------------------------------------
(* analyze_security_posture called on its own.                             *)

\* how many times a function is called on the same arguments
MaxCalls == 2

\* the ports the analyzer's inputs draw from: ports of every table of the
\* analyzer; and 20 ports of no table, which bring a list to 20 ports (none
\* of the universe open) or over
AnalyzeUniverse ==
    {21, 23, 80, 88, 389, 443, 445, 636, 3268, 3269, 3306, 5432, 8080, 8443}
FillerCounts == {0, 20}
FillerPorts(n) == {9000 + k : k \in 1..n}

\* the Stage 2 records the inputs draw from: none, the engine's record of
\* port 21 whose ftp-anon script reports the anonymous login, the same with
\* a script that reports a refusal, and a record without script results
ScriptVariants == {"none", "anon", "refused", "noscript"}
RecordsOf(variant) ==
    CASE variant = "none" -> EmptyDict
      [] variant = "anon" -> (21 :> DetailedRecord(EngineInfo(21, "full")))
      [] variant = "refused" ->
            (21 :> [DetailedRecord(EngineInfo(21, "full")) EXCEPT
                      !.script_results =
                          ("ftp-anon" :> "Anonymous FTP login denied (FTP code 530)")])
      [] OTHER -> (21 :> DetailedRecord(EngineInfo(21, "bare")))

\* analyze_security_posture with an insights list that outlives the call
AnalyzeSharedInsights ==
    /\ Len(returns) < MaxCalls
    /\ LET insights == IF returns = <<>> THEN <<>> ELSE returns[Len(returns)]
       IN  returns' = Append(returns,
                insights \o analyze_security_posture(args.open_ports,
                                                     args.detailed_results))
    /\ UNCHANGED <<args, grabVars, mainVars>>

\* one call analyze_security_posture(open_ports, detailed_results): the
\* list starts empty, the rules append to it, it is returned; the function
\* assigns to neither argument nor to a global
Analyze ==
    /\ Len(returns) < MaxCalls
    /\ LET insights == <<>>
       IN  returns' = Append(returns,
                insights \o analyze_security_posture(args.open_ports,
                                                     args.detailed_results))
    /\ UNCHANGED <<args, grabVars, mainVars>>

\* print_summary is about to call the analyzer on the sorted list of open
\* ports and the results store
InitAnalyze ==
    /\ GrabIdle
    /\ pc = "idle"
    /\ nmap_importable = TRUE
    /\ port_range = <<1, 65535>>
    /\ engine_calls = <<>>
    /\ engine_busy = FALSE
    /\ stage_log = <<>>
    /\ \E S \in SUBSET AnalyzeUniverse, n \in FillerCounts :
          open_ports = Sorted(S \cup FillerPorts(n))
    /\ \E v \in ScriptVariants : scan_detailed_results = RecordsOf(v)
    /\ summary = <<>>
    /\ report = <<>>
    /\ report_saved = "no"
    /\ messages = <<>>
    /\ args = [open_ports |-> open_ports, detailed_results |-> scan_detailed_results]
    /\ returns = <<>>

NextAnalyze == Analyze

SpecAnalyze == InitAnalyze /\ [][NextAnalyze]_vars

IsWebFinding(insight) == StartsWith(insight, "Web services on ports ")

\* the ports a web insight lists between its brackets
ListedPorts(insight) ==
    LET a == IndexOf(insight, "[", 1)
        b == IndexOf(insight, "]", 1)
        items == Split(SubSeq(insight, a + 1, b - 1), ",")
    IN  {ParseInt(Strip(items[k])) : k \in DOMAIN items}

\* C13: for every non-empty list of open ports drawn only from 80, 443,
\* 8080 and 8443, with no script data, the analyzer returns exactly one
\* finding, the web finding, and it lists exactly the open web ports; and
\* the web finding is emitted if and only if one of the four ports is open
C13_WebFinding ==
    \A c \in DOMAIN returns :
        LET ps == Range(args.open_ports)
            insights == returns[c]
        IN  /\ (\E k \in DOMAIN insights : IsWebFinding(insights[k]))
                  <=> ps \cap {80, 443, 8080, 8443} # {}
            /\ (ps # {} /\ ps \subseteq {80, 443, 8080, 8443}
                    /\ DOMAIN args.detailed_results = {})
                  => /\ Len(insights) = 1
                     /\ IsWebFinding(insights[1])
                     /\ ListedPorts(insights[1]) = ps

\* the analyzer has been called on the open ports 80 and 8443 alone
C13_Witness ==
    /\ Len(returns) >= 1
    /\ args.open_ports = <<80, 8443>>
    /\ DOMAIN args.detailed_results = {}
    /\ returns[1] = <<"Web services on ports [80, 8443] - Web application attack surface">>

DomainControllerFinding ==
    "Domain Controller detected - Kerberos, LDAP services indicate AD environment"

\* C14: the domain-controller finding is emitted if and only if at least
\* two distinct ports of the input are among 88, 389, 636, 3268 and 3269,
\* whatever the other rules find: one such port alone never triggers it,
\* and 88, 389 and 636 together do
C14_DomainController ==
    \A c \in DOMAIN returns :
        LET ps == Range(args.open_ports)
            emitted == DomainControllerFinding \in Range(returns[c])
        IN  /\ emitted <=> Cardinality(ps \cap {88, 389, 636, 3268, 3269}) >= 2
            /\ {88, 389, 636} \subseteq ps => emitted
            /\ Cardinality(ps \cap {88, 389, 636, 3268, 3269}) = 1 => ~emitted

\* the analyzer has been called on 88, 389 and 636 with other services
\* open, and has emitted the finding among others
C14_Witness ==
    /\ Len(returns) >= 1
    /\ args.open_ports = <<80, 88, 389, 445, 636>>
    /\ returns[1][1] = DomainControllerFinding
    /\ Len(returns[1]) = 3

-----------------------------------------------------------------------------
(* get_service_name called on its own.                                     *)

\* one call get_service_name(port)
Lookup ==
    /\ Len(returns) < MaxCalls
    /\ returns' = Append(returns, get_service_name(args.port))
    /\ UNCHANGED <<args, grabVars, mainVars>>

\* get_service_name is about to be called on a port of the scan range
InitLookup ==
    /\ GrabIdle
    /\ MainIdle
    /\ \E port \in AllPorts : args = [port |-> port]
    /\ returns = <<>>

NextLookup == Lookup

SpecLookup == InitLookup /\ [][NextLookup]_vars

\* C15: get_service_name answers for every port of 1..65535: a port of
\* 49152..65535 is named "Dynamic-RPC" whatever the table says; any other
\* port has its table name, or "Unknown" when the table lacks it
C15_ServiceNameTotal ==
    \A c \in DOMAIN returns :
        LET port == args.port
            name == returns[c]
        IN  /\ name \in STRING
            /\ port >= 49152 => name = "Dynamic-RPC"
            /\ port < 49152 /\ port \in DOMAIN common_ports
                  => name = common_ports[port]
            /\ port < 49152 /\ port \notin DOMAIN common_ports
                  => name = "Unknown"
            /\ port = 443 => name = "HTTPS"
            /\ port = 4 => name = "Unknown"

\* the lookup has answered for a port of the dynamic range that the table
\* does not list
C15_Witness ==
    /\ Len(returns) >= 1
    /\ args.port = 60000
    /\ args.port \notin DOMAIN common_ports
    /\ returns[1] = "Dynamic-RPC"

-----------------------------------------------------------------------------
(* Regular expressions, as re.search(pattern, text, re.IGNORECASE) treats  *)
(* the patterns of detect_service_version.                                 *)

UpperLetters == "ABCDEFGHIJKLMNOPQRSTUVWXYZ"
LowerLetters == "abcdefghijklmnopqrstuvwxyz"

\* the lower-case letter of each upper-case letter
LowerOf ==
    [c \in {SubSeq(UpperLetters, k, k) : k \in 1..26} |->
        LET k == IndexOf(UpperLetters, c, 1) IN SubSeq(LowerLetters, k, k)]

\* str.lower, for ASCII text
RECURSIVE Lower(_)
Lower(s) ==
    IF Len(s) = 0 THEN ""
    ELSE LET c == SubSeq(s, 1, 1)
         IN  (IF c \in DOMAIN LowerOf THEN LowerOf[c] ELSE c)
                 \o Lower(SubSeq(s, 2, Len(s)))

\* the character classes of the patterns, on lower-cased text:
\* \d, \w, \s, [\w._-], [\w._/-], [\d.], [_-], [\s:]
ClassD == {Digits[k] : k \in 1..10}
ClassW == {SubSeq(LowerLetters, k, k) : k \in 1..26} \cup ClassD \cup {"_"}
ClassS == Whitespace
ClassToken == ClassW \cup {".", "_", "-"}
ClassPath == ClassW \cup {".", "_", "/", "-"}
ClassDotted == ClassD \cup {"."}
ClassJoin == {"_", "-"}
ClassSep == ClassS \cup {":"}

\* the atoms a pattern is made of: a literal, one character of a class,
\* one or more characters of a class (greedy), the two ends of group 1
Lit(text) == [t |-> "lit", s |-> text, cls |-> {}]
One(cls) == [t |-> "one", s |-> "", cls |-> cls]
Plus(cls) == [t |-> "plus", s |-> "", cls |-> cls]
Open == [t |-> "open", s |-> "", cls |-> {}]
Close == [t |-> "close", s |-> "", cls |-> {}]

NoMatch == [ok |-> FALSE, span |-> <<0, 0>>, group |-> <<0, 0>>]

\* how many characters of text from index i on belong to cls
RECURSIVE RunLength(_, _, _)
RunLength(text, i, cls) ==
    IF i <= Len(text) /\ SubSeq(text, i, i) \in cls
    THEN 1 + RunLength(text, i + 1, cls)
    ELSE 0

\* the match of atoms k.. of pat at index i of text, as the backtracking
\* matcher finds it: a greedy repetition takes all it can and gives back
\* one character at a time while the rest of the pattern fails
RECURSIVE MatchFrom(_, _, _, _, _)
RECURSIVE GiveBack(_, _, _, _, _, _)
MatchFrom(pat, k, text, i, group) ==
    IF k > Len(pat) THEN [ok |-> TRUE, span |-> <<0, i - 1>>, group |-> group]
    ELSE LET a == pat[k]
         IN  CASE a.t = "lit" ->
                    IF /\ i + Len(a.s) - 1 <= Len(text)
                       /\ SubSeq(text, i, i + Len(a.s) - 1) = a.s
                    THEN MatchFrom(pat, k + 1, text, i + Len(a.s), group)
                    ELSE NoMatch
               [] a.t = "one" ->
                    IF i <= Len(text) /\ SubSeq(text, i, i) \in a.cls
                    THEN MatchFrom(pat, k + 1, text, i + 1, group)
                    ELSE NoMatch
               [] a.t = "plus" ->
                    GiveBack(pat, k, text, i, group, RunLength(text, i, a.cls))
               [] a.t = "open" ->
                    MatchFrom(pat, k + 1, text, i, <<i, 0>>)
               [] OTHER ->
                    MatchFrom(pat, k + 1, text, i, <<group[1], i - 1>>)
GiveBack(pat, k, text, i, group, n) ==
    IF n < 1 THEN NoMatch
    ELSE LET r == MatchFrom(pat, k + 1, text, i + n, group)
         IN  IF r.ok THEN r ELSE GiveBack(pat, k, text, i, group, n - 1)

\* re.search: the match at the leftmost index where there is one
RECURSIVE SearchFrom(_, _, _)
SearchFrom(pat, text, i) ==
    IF i > Len(text) THEN NoMatch
    ELSE LET r == MatchFrom(pat, 1, text, i, <<0, 0>>)
         IN  IF r.ok THEN [r EXCEPT !.span = <<i, r.span[2]>>]
             ELSE SearchFrom(pat, text, i + 1)

\* re.search(pattern, text, re.IGNORECASE)
Search(pat, text) == SearchFrom(pat, Lower(text), 1)

\* whether the pattern has a group 1
HasGroup(pat) == \E k \in DOMAIN pat : pat[k].t = "open"

\* match.group(1), for a match of a pattern that has the group
Group1(text, match) == SubSeq(text, match.group[1], match.group[2])

-----------------------------------------------------------------------------
(* detect_service_version.                                                 *)

\* version_patterns, in the order of the dict: the service of each pattern
\* and the pattern itself
Pattern(service, source, atoms) ==
    [service |-> service, source |-> source, atoms |-> atoms]
version_patterns ==
    << Pattern("ssh", "SSH-\\d+\\.\\d+-([\\w._-]+)",
          <<Lit("ssh-"), Plus(ClassD), Lit("."), Plus(ClassD), Lit("-"),
            Open, Plus(ClassToken), Close>>),
       Pattern("ssh", "OpenSSH[_-]([\\d.]+)",
          <<Lit("openssh"), One(ClassJoin), Open, Plus(ClassDotted), Close>>),
       Pattern("http", "Server:\\s+([\\w._/-]+)",
          <<Lit("server:"), Plus(ClassS), Open, Plus(ClassPath), Close>>),
       Pattern("http", "Apache/([\\d.]+)",
          <<Lit("apache/"), Open, Plus(ClassDotted), Close>>),
       Pattern("http", "nginx/([\\d.]+)",
          <<Lit("nginx/"), Open, Plus(ClassDotted), Close>>),
       Pattern("http", "Microsoft-IIS/([\\d.]+)",
          <<Lit("microsoft-iis/"), Open, Plus(ClassDotted), Close>>),
       Pattern("ftp", "([\\w._-]+) FTP",
          <<Open, Plus(ClassToken), Close, Lit(" ftp")>>),
       Pattern("ftp", "FTP server \\(Version ([\\w._-]+)\\)",
          <<Lit("ftp server (version "), Open, Plus(ClassToken), Close, Lit(")")>>),
       Pattern("smtp", "([\\w._-]+) ESMTP",
          <<Open, Plus(ClassToken), Close, Lit(" esmtp")>>),
       Pattern("smtp", "([\\w._-]+) Mail Service",
          <<Open, Plus(ClassToken), Close, Lit(" mail service")>>),
       Pattern("mysql", "([\\d.]+)-MariaDB",
          <<Open, Plus(ClassDotted), Close, Lit("-mariadb")>>),
       Pattern("mysql", "MySQL\\s+([\\d.]+)",
          <<Lit("mysql"), Plus(ClassS), Open, Plus(ClassDotted), Close>>),
       Pattern("mysql", "mysql_native_password",
          <<Lit("mysql_native_password")>>),
       Pattern("telnet", "([\\w._-]+) telnetd",
          <<Open, Plus(ClassToken), Close, Lit(" telnetd")>>),
       Pattern("pop3", "POP3 Server ([\\w._-]+)",
          <<Lit("pop3 server "), Open, Plus(ClassToken), Close>>),
       Pattern("imap", "IMAP4rev1 ([\\w._-]+)",
          <<Lit("imap4rev1 "), Open, Plus(ClassToken), Close>>),
       Pattern("generic", "version[\\s:]+([\\w._-]+)",
          <<Lit("version"), Plus(ClassSep), Open, Plus(ClassToken), Close>>),
       Pattern("generic", "([\\d.]+\\d)",
          <<Open, Plus(ClassDotted), One(ClassD), Close>>) >>

\* version_patterns['generic']
GenericPatterns == SelectSeq(version_patterns, LAMBDA p : p.service = "generic")

\* str.splitlines, for the line ends \r\n, \n and \r
RECURSIVE SplitLinesFrom(_, _, _)
SplitLinesFrom(s, i, start) ==
    IF i > Len(s)
    THEN IF start > Len(s) THEN <<>> ELSE <<SubSeq(s, start, Len(s))>>
    ELSE LET c == SubSeq(s, i, i)
         IN  IF c = "\r" /\ i < Len(s) /\ SubSeq(s, i + 1, i + 1) = "\n"
             THEN <<SubSeq(s, start, i - 1)>> \o SplitLinesFrom(s, i + 2, i + 2)
             ELSE IF c \in {"\n", "\r"}
             THEN <<SubSeq(s, start, i - 1)>> \o SplitLinesFrom(s, i + 1, i + 1)
             ELSE SplitLinesFrom(s, i + 1, start)
SplitLines(s) == SplitLinesFrom(s, 1, 1)

\* how a call ends: it returns a value, or an exception leaves it
Return(value) == [kind |-> "return", value |-> value]
Raise(exception) == [kind |-> "raise", value |-> exception]
NoReturn == [kind |-> "none", value |-> ""]

\* "for pattern in patterns: match = re.search(pattern, text, ...); if
\* match: return match.group(1)" from pattern k on: the first pattern that
\* matches ends the function, by its group 1, or by the IndexError of
\* group(1) when the pattern has no group
RECURSIVE TryPatterns(_, _, _)
TryPatterns(patterns, k, text) ==
    IF k > Len(patterns) THEN NoReturn
    ELSE LET match == Search(patterns[k].atoms, text)
         IN  IF match.ok
             THEN IF HasGroup(patterns[k].atoms)
                  THEN Return(Group1(text, match))
                  ELSE Raise("IndexError")
             ELSE TryPatterns(patterns, k + 1, text)

\* the line-level stage with the two loops exchanged: "for service,
\* patterns in version_patterns.items(): for pattern in patterns: for line
\* in banner_lines: ...", over the lines from k on
TryLinesPatternMajor(banner_lines, k) ==
    LET Hit(p, l) == Search(version_patterns[p].atoms, banner_lines[l]).ok
        hits == {p \in DOMAIN version_patterns :
                    \E l \in k..Len(banner_lines) : Hit(p, l)}
    IN  IF hits = {} THEN NoReturn
        ELSE LET p == CHOOSE x \in hits : \A y \in hits : x <= y
                 l == CHOOSE x \in k..Len(banner_lines) :
                         /\ Hit(p, x)
                         /\ \A y \in k..(x - 1) : ~Hit(p, y)
             IN  IF HasGroup(version_patterns[p].atoms)
                 THEN Return(Group1(banner_lines[l],
                                    Search(version_patterns[p].atoms, banner_lines[l])))
                 ELSE Raise("IndexError")

\* "for line in banner_lines: for service, patterns in
\* version_patterns.items(): ..." from line k on
RECURSIVE TryLines(_, _)
TryLines(banner_lines, k) ==
    IF k > Len(banner_lines) THEN NoReturn
    ELSE LET r == TryPatterns(version_patterns, 1, banner_lines[k])
         IN  IF r.kind # "none" THEN r ELSE TryLines(banner_lines, k + 1)

\* the try block of detect_service_version: line by line, then the whole
\* banner, then the generic patterns on the whole banner
DetectTry(banner) ==
    LET by_line == TryLines(SplitLines(banner), 1)
        whole == TryPatterns(version_patterns, 1, banner)
        generic == TryPatterns(GenericPatterns, 1, banner)
    IN  IF by_line.kind # "none" THEN by_line
        ELSE IF whole.kind # "none" THEN whole
        ELSE generic

\* detect_service_version without its except clauses
DetectUncaught(banner) ==
    LET r == DetectTry(banner)
    IN  IF r.kind = "none" THEN Return("Unknown Version") ELSE r

\* detect_service_version(banner): the except clauses only log, and the
\* function ends on its last line
detect_service_version(banner) ==
    LET r == DetectTry(banner)
    IN  IF r.kind = "return" THEN r ELSE Return("Unknown Version")

-----------------------------------------------------------------------------
(* detect_service_version called on its own.                               *)

\* the most lines a banner of the scenarios has
MaxLines == 2

\* the lines the banners are made of: lines of an HTTP answer (a status
\* line, a Server header, a header name alone), the greetings of an SSH and
\* an FTP server, the name of the MySQL authentication plugin, and a line
\* that holds no version at all
BannerLines ==
    {"HTTP/1.1 200 OK", "Server: nginx/1.18.0", "Server:",
     "SSH-2.0-OpenSSH_8.2p1", "ProFTPD 1.3.5 FTP", "mysql_native_password",
     "Welcome"}

\* the banners of at most n lines, the lines joined by \r\n
RECURSIVE BannersOf(_)
BannersOf(n) ==
    IF n = 0 THEN {""}
    ELSE BannerLines
           \cup BannersOf(n - 1)
           \cup {b \o "\r\n" \o l : b \in BannersOf(n - 1) \ {""}, l \in BannerLines}

\* one call detect_service_version(banner)
Detect ==
    /\ Len(returns) < MaxCalls
    /\ returns' = Append(returns, detect_service_version(args.banner))
    /\ UNCHANGED <<args, grabVars, mainVars>>

\* detect_service_version is about to be called on a banner
InitDetect ==
    /\ GrabIdle
    /\ MainIdle
    /\ \E banner \in BannersOf(MaxLines) : args = [banner |-> banner]
    /\ returns = <<>>

NextDetect == Detect

SpecDetect == InitDetect /\ [][NextDetect]_vars

-----------------------------------------------------------------------------
(* Properties of detect_service_version.                                   *)

\* the texts the function searches for a banner: its lines and the whole
SearchedTexts(banner) == Range(SplitLines(banner)) \cup {banner}

\* the pairs of a catalog index and a searched text such that the pattern
\* matches the text, for the patterns whose service satisfies Wanted
Matches(banner, Wanted(_)) ==
    {m \in (DOMAIN version_patterns) \X SearchedTexts(banner) :
        /\ Wanted(version_patterns[m[1]].service)
        /\ Search(version_patterns[m[1]].atoms, m[2]).ok}

IsSpecific(service) == service # "generic"
AnyService(service) == TRUE

\* group 1 of the match of a capturing pattern on a text
CaptureOf(m) == Group1(m[2], Search(version_patterns[m[1]].atoms, m[2]))

\* C16: the generic patterns are a fallback: for every banner that some
\* service-specific pattern matches (on a line or as a whole), the value
\* returned is the capture of a service-specific pattern and not of a
\* generic one. (Banners on which the capture-less pattern matches are
\* left out: they have no capture to return.)
C16_GenericOnlyAsFallback ==
    LET specific == Matches(args.banner, IsSpecific)
    IN  \A c \in DOMAIN returns :
            (/\ specific # {}
             /\ \A m \in specific : HasGroup(version_patterns[m[1]].atoms))
               => returns[c].value \in {CaptureOf(m) : m \in specific}

\* C17: detect_service_version never raises: for every banner, the empty
\* one and those on which group(1) fails included, it returns a string,
\* and that string is "Unknown Version" whenever no pattern matches or a
\* matching step fails
C17_NeverRaises ==
    LET unmatched == Matches(args.banner, AnyService) = {}
        failed == DetectTry(args.banner).kind = "raise"
    IN  \A c \in DOMAIN returns :
            /\ returns[c].kind = "return"
            /\ returns[c].value \in STRING
            /\ unmatched => returns[c].value = "Unknown Version"
            /\ failed => returns[c].value = "Unknown Version"

\* the function has been called on a banner on which the first pattern to
\* match has no group: group(1) raised, and the call returned
C17_Witness ==
    /\ Len(returns) >= 1
    /\ args.banner = "mysql_native_password"
    /\ DetectTry(args.banner) = Raise("IndexError")
    /\ returns[1] = Return("Unknown Version")

-----------------------------------------------------------------------------
(* Properties of the report.                                               *)

\* the non-empty strings of a list, joined by single spaces
SpaceJoined(parts) == Join(SelectSeq(parts, LAMBDA part : part # ""), " ")

\* C18: the report holds exactly one open_ports entry per port of the
\* open-port list, in the order of the list, and open_ports_count is the
\* number of entries; a port without a Stage 2 record has its entry all the
\* same, with the static service name, empty product, version and
\* extrainfo, and the state "open"; and every service_description is
\* name[ product][ version][ (extrainfo)]
C18_OneEntryPerPort ==
    \A r \in DOMAIN report :
        LET entries == report[r].open_ports
        IN  /\ Len(entries) = Len(open_ports)
            /\ report[r].metadata.open_ports_count = Len(entries)
            /\ \A k \in DOMAIN entries :
                  LET e == entries[k]
                  IN  /\ e.port_number = open_ports[k]
                      /\ e.port_number \notin DOMAIN scan_detailed_results
                            => /\ e.service = get_service_name(e.port_number)
                               /\ e.service \in {"FTP", "HTTPS", "MySQL", "Dynamic-RPC"}
                               /\ e.product = "" /\ e.version = ""
                               /\ e.extrainfo = ""
                               /\ e.state = "open"
                      /\ e.service_description =
                            SpaceJoined(<<e.service, e.product, e.version,
                                          IF e.extrainfo = "" THEN ""
                                          ELSE "(" \o e.extrainfo \o ")">>)

\* a report has been built for two open ports of which Stage 2 recorded
\* only one, in full
C18_Witness ==
    /\ Len(report) = 1
    /\ open_ports = <<21, 3306>>
    /\ DOMAIN scan_detailed_results = {3306}
    /\ report[1].open_ports[1].service_description = "FTP"
    /\ report[1].open_ports[2].service_description = "mysql MySQL 5.7.33 (unauthorized)"

-----------------------------------------------------------------------------
(* Properties of the end of the run.                                       *)

\* C19: if the user interrupts the run at any point before it has
\* completed, the run ends early and no report, whole or partial, has been
\* written for it
C19_InterruptLeavesNoReport ==
    pc = "interrupted"
        => /\ report_saved = "no"
           /\ Logged("Scan interrupted by user. Exiting...")

\* the sentinel strings of target_hostname
HostnameSentinels == {"Unable to resolve", "Error resolving: timed out"}

\* C20: a permission or I/O failure at any step of persisting the report
\* (making the log directory, opening the file, writing the JSON, setting
\* its mode) is told to the operator as a failure to save the report and
\* the run completes normally, never through the handler of unexpected
\* errors; and a failure to resolve the host name only puts a sentinel
\* string in target_hostname
C20_SaveFailureSurfaced ==
    /\ pc # "error_exit"
    /\ ~Logged("Unexpected error")
    /\ (pc = "done" /\ summary # <<>>)
          => /\ Len(report) = 1
             /\ report[1].metadata.target_hostname
                   \in HostnameSentinels \cup {"host.example.net"}
             /\ (report_saved # "written"
                   \/ ~Logged("Comprehensive scan results saved"))
                  => \E io \in IoOutcomes : Logged(SaveFailure(io))

-----------------------------------------------------------------------------
(* Properties of the banner grabber (continued).                           *)

\* the probe called s.close() before it returned. (A socket that was not
\* closed is left to the interpreter: it stays open until its object is
\* reclaimed.)
ClosedItsSocket(r) == r.ops # <<>> /\ r.ops[Len(r.ops)] = "close"

\* C21: on every exit path of threaded_banner_grab (banner read, read
\* timeout, read reset, connection refused, connect timeout, other OS
\* error, the SSL/TLS early return) the socket it opened has been closed by
\* the time the call returns
C21_SocketAlwaysClosed ==
    \A i \in DOMAIN futures : ClosedItsSocket(futures[i])


\* C22: under fairness of the threads, every socket operation being
\* bounded by the timeout, banner_grabbing over any finite port list
\* eventually returns: every submitted probe completes, the completion
\* loop consumes each of them exactly once, and the pool shuts down
C22_GrabbingReturns ==
    /\ <>(grabPc = "returned")
    /\ [](grabPc = "returned"
            => /\ submitted = Len(ports) /\ started = Len(ports)
               /\ running = {}
               /\ DOMAIN futures = DOMAIN ports
               /\ consumed = DOMAIN ports)
    /\ [][/\ consumed \subseteq consumed'
          /\ Cardinality(consumed') <= Cardinality(consumed) + 1]_vars

\* banner_grabbing has returned from a list of two ports of which one
\* never answered the connection and the other never sent a byte
C22_Witness ==
    /\ grabPc = "returned"
    /\ ports = <<21, 23>>
    /\ net[21] = "connect_timeout"
    /\ net[23] = "silent"
    /\ consumed = {1, 2}

-----------------------------------------------------------------------------
(* Properties of analyze_security_posture (continued).                     *)

\* the opening words of the finding of each rule, in the documented order
RuleOpenings ==
    <<"Domain Controller detected", "Database services detected:",
      "Remote access services:", "SMB service detected",
      "Anonymous FTP access enabled", "Web services on ports",
      "Telnet service detected", "High number of open ports">>

\* the rule a finding belongs to, 0 if none
RuleOf(insight) ==
    IF \E n \in DOMAIN RuleOpenings : StartsWith(insight, RuleOpenings[n])
    THEN CHOOSE n \in DOMAIN RuleOpenings : StartsWith(insight, RuleOpenings[n])
    ELSE 0

\* whether each rule's own condition holds of the inputs
RuleCondition(n, ps, records) ==
    CASE n = 1 -> Cardinality(ps \cap {88, 389, 636, 3268, 3269}) >= 2
      [] n = 2 -> ps \cap {1433, 3306, 5432, 1521} # {}
      [] n = 3 -> ps \cap {22, 3389, 5985, 5986, 23} # {}
      [] n = 4 -> 445 \in ps
      [] n = 5 -> /\ 21 \in ps
                  /\ 21 \in DOMAIN records
                  /\ "ftp-anon" \in DOMAIN records[21].script_results
                  /\ Contains(records[21].script_results["ftp-anon"],
                              "Anonymous FTP login allowed")
      [] n = 6 -> ps \cap {80, 443, 8080, 8443} # {}
      [] n = 7 -> 23 \in ps
      [] OTHER -> Cardinality(ps) > 20

\* C23: the list analyze_security_posture returns follows the fixed rule
\* order (domain controller, database, remote access, SMB, anonymous FTP,
\* web, Telnet, port count), each finding at most once, and each rule fires
\* exactly when its own condition holds, whatever the other rules do
C23_RuleOrder ==
    \A c \in DOMAIN returns :
        LET insights == returns[c]
            rules == [k \in DOMAIN insights |-> RuleOf(insights[k])]
        IN  /\ \A k \in DOMAIN rules : rules[k] # 0
            /\ \A j, k \in DOMAIN rules : j < k => rules[j] < rules[k]
            /\ \A n \in DOMAIN RuleOpenings :
                  n \in Range(rules)
                      <=> RuleCondition(n, Range(args.open_ports),
                                        args.detailed_results)

\* the analyzer has been called with port 23 open beside a web port and
\* has returned the remote access, the web and the Telnet finding, in
\* that order
C23_Witness ==
    /\ Len(returns) >= 1
    /\ args.open_ports = <<23, 80>>
    /\ returns[1] =
          <<"Remote access services: Telnet - Authentication targets",
            "Web services on ports [80] - Web application attack surface",
            "Telnet service detected - Unencrypted protocol, consider SSH alternative">>

-----------------------------------------------------------------------------
(* Properties of detect_service_version (continued).                       *)

\* the catalog indices of the patterns that match a line, and the first
FirstOf(S) == CHOOSE x \in S : \A y \in S : x <= y
PatternsOn(line) ==
    {p \in DOMAIN version_patterns : Search(version_patterns[p].atoms, line).ok}

\* what the call returns when pattern p is the one taken on a line
TakenOn(p, line) ==
    IF HasGroup(version_patterns[p].atoms)
    THEN Group1(line, Search(version_patterns[p].atoms, line))
    ELSE "Unknown Version"

\* the first pattern to match the line is service-specific and has a group
SpecificFirst(line) ==
    LET p == FirstOf(PatternsOn(line))
    IN  /\ IsSpecific(version_patterns[p].service)
        /\ HasGroup(version_patterns[p].atoms)

-----------------------------------------------------------------------------
(* Several scan_ports calls in one process.  scan_detailed_results is a    *)
(* module global: a call assigns it only on the path that reaches Stage 2, *)
(* so this specification lets a caller call scan_ports again once a call   *)
(* has returned.                                                           *)

\* the most calls of scan_ports in one process
MaxScans == 2

\* the calls of scan_ports that have got past fast_port_discovery
ScansDone == Cardinality({i \in DOMAIN stage_log : stage_log[i].stage = 1})

\* a caller calls scan_ports(target, start_port, end_port) again; nothing
\* of the module's state is reset before the call
ScanPortsAgain ==
    /\ pc = "scanned"
    /\ ScansDone < MaxScans
    /\ \E r \in PortRanges : port_range' = r
    /\ pc' = "scan_ports"
    /\ UNCHANGED <<nmap_importable, engine_calls, engine_busy, stage_log,
                   open_ports, scan_detailed_results, summary, report,
                   report_saved, messages, grabVars, callVars>>

NextRescan ==
    \/ FastDiscoveryCall
    \/ \E answer \in PendingAnswers : FastDiscoveryReturn(answer)
    \/ ComprehensiveCall
    \/ \E answer \in PendingAnswers : ComprehensiveReturn(answer)
    \/ ScanPortsAgain

SpecRescan == Init /\ [][NextRescan]_vars

\* C25: once a scan_ports call has returned, the results store holds
\* records only for ports of the open-port list that call returned; a call
\* whose Stage 1 finds nothing, or whose Stage 2 fails, leaves no record of
\* an earlier call in the store.
C25_StoreOfLastCallOnly ==
    pc = "scanned" => DOMAIN scan_detailed_results \subseteq Range(open_ports)


\* the matches of the patterns that have a group
Capturing(banner) ==
    {m \in Matches(banner, AnyService) : HasGroup(version_patterns[m[1]].atoms)}

\* C26: for every banner that at least one capturing pattern of the
\* catalog (service-specific or generic) matches, on a line or as a whole,
\* the value returned is the capture of such a match and not "Unknown
\* Version"; text matched by the capture-less mysql_native_password
\* pattern does not stop a version token elsewhere from being returned.
C26_CaptureNeverLost ==
    LET capturing == Capturing(args.banner)
    IN  \A c \in DOMAIN returns :
            capturing # {}
              => /\ returns[c].value # "Unknown Version"
                 /\ returns[c].value \in {CaptureOf(m) : m \in capturing}

====
